---- MODULE Spec2Model ----
(***************************************************************************)
(* Model of the stock-analyzer scripts (analyzer.py, rule1_analyzer.py):   *)
(* the batch loop of main, the persistence upserts, the cross-sectional    *)
(* ranker and the Piotroski F-Score calculator.                            *)
(*                                                                         *)
(* Values.  Python floats are modelled as exact rationals <<n, d>> with    *)
(* d > 0 in lowest terms (floating-point rounding is not modelled).        *)
(*   None       <<>>            Python None / SQL NULL                     *)
(*   NaN        <<"nan">>       float('nan')                               *)
(*   PosInf     <<"inf">>       float('inf')                               *)
(*   NegInf     <<"-inf">>      float('-inf')                              *)
(*   Bad        <<"str">>       a non-numeric string ('N/A')               *)
(*   Raise      <<"raise">>     the call raised an Exception               *)
(***************************************************************************)
EXTENDS Integers, Sequences, FiniteSets, TLC

None == <<>>
NaN == <<"nan">>
PosInf == <<"inf">>
NegInf == <<"-inf">>
Bad == <<"str">>
Raise == <<"raise">>

\* The same two outcomes for functions that return a dict (a record).
NoneR == [none |-> TRUE]
RaiseR == [raised |-> TRUE]

RECURSIVE Gcd(_, _)
Gcd(a, b) == IF b = 0 THEN a ELSE Gcd(b, a % b)

Abs(x) == IF x < 0 THEN -x ELSE x

\* The rational n/d (d /= 0) in lowest terms with a positive denominator.
Rat(n, d) ==
    LET g == Gcd(Abs(n), Abs(d))
        s == IF d < 0 THEN -1 ELSE 1
    IN  <<(s * n) \div g, (s * d) \div g>>

Num(n) == <<n, 1>>

IsNum(v) == Len(v) = 2
IsFloat(v) == IsNum(v) \/ v \in {NaN, PosInf, NegInf}

\* a > b on floats: every comparison with NaN is False.
Gt(a, b) ==
    IF a = NaN \/ b = NaN THEN FALSE
    ELSE IF a = PosInf THEN b /= PosInf
    ELSE IF a = NegInf THEN FALSE
    ELSE IF b = PosInf THEN FALSE
    ELSE IF b = NegInf THEN TRUE
    ELSE a[1] * b[2] > b[1] * a[2]

\* a <= b on floats.
Le(a, b) == a /= NaN /\ b /= NaN /\ ~Gt(a, b)

\* a >= b on floats.
Ge(a, b) == Le(b, a)

Zero == Num(0)

\* a / b on floats, for b > 0 (every division of the code is guarded so).
Quot(a, b) ==
    IF a = NaN \/ b = NaN THEN NaN
    ELSE IF b = PosInf THEN (IF IsNum(a) THEN Zero ELSE NaN)
    ELSE IF a \in {PosInf, NegInf} THEN a
    ELSE Rat(a[1] * b[2], a[2] * b[1])

\* a - b on floats.
Minus(a, b) ==
    IF a = NaN \/ b = NaN THEN NaN
    ELSE IF a = PosInf THEN (IF b = PosInf THEN NaN ELSE PosInf)
    ELSE IF a = NegInf THEN (IF b = NegInf THEN NaN ELSE NegInf)
    ELSE IF b = PosInf THEN NegInf
    ELSE IF b = NegInf THEN PosInf
    ELSE Rat(a[1] * b[2] - b[1] * a[2], a[2] * b[2])

(***************************************************************************)
(* Statement tables (pandas DataFrames): present = FALSE is None; rows     *)
(* maps each line-item name of the index to its cells, one per period      *)
(* column (column 0 first).                                                *)
(***************************************************************************)
NoTable == [present |-> FALSE, ncols |-> 0, rows |-> <<>>]

Table(n, r) == [present |-> TRUE, ncols |-> n, rows |-> r]

\* df.empty
Empty(df) == df.ncols = 0 \/ DOMAIN df.rows = {}

\* analyzer.py safe(val): None for None/NaN/Inf, float(val) otherwise
\* (float of a non-numeric string raises ValueError).
safe(val) ==
    IF val = None THEN None
    ELSE IF val \in {NaN, PosInf, NegInf} THEN None
    ELSE IF val = Bad THEN Raise
    ELSE val

RECURSIVE gsv_from(_, _, _, _)
gsv_from(df, keys, col, k) ==
    IF k > Len(keys) THEN None
    ELSE IF keys[k] \in DOMAIN df.rows
    THEN IF col + 1 > df.ncols THEN Raise            \* .iloc[col]: IndexError
         ELSE LET val == df.rows[keys[k]][col + 1]
              IN  IF val \in {None, NaN} THEN gsv_from(df, keys, col, k + 1)
                  ELSE IF val = Bad THEN Raise       \* float(val): ValueError
                  ELSE val
    ELSE gsv_from(df, keys, col, k + 1)

\* analyzer.py get_stmt_value(df, keys, col)
get_stmt_value(df, keys, col) ==
    IF ~df.present \/ Empty(df) THEN None
    ELSE gsv_from(df, keys, col, 1)

RECURSIVE gsv_rule1_from(_, _, _, _)
gsv_rule1_from(df, keys, col, k) ==
    IF k > Len(keys) THEN None
    ELSE IF keys[k] \in DOMAIN df.rows /\ col + 1 <= df.ncols
    THEN LET val == df.rows[keys[k]][col + 1]
         IN  IF val \in {None, NaN} THEN gsv_rule1_from(df, keys, col, k + 1)
             ELSE IF val = Bad THEN Raise            \* float(val): ValueError
             ELSE val
    ELSE gsv_rule1_from(df, keys, col, k + 1)        \* except IndexError: pass

\* rule1_analyzer.py get_stmt_value(df, keys, col)
get_stmt_value_rule1(df, keys, col) ==
    IF ~df.present \/ Empty(df) THEN None
    ELSE gsv_rule1_from(df, keys, col, 1)

(***************************************************************************)
(* Piotroski F-Score.  A ticker object t is the record of its three        *)
(* statement tables; info is the snapshot map (a missing key reads None).  *)
(***************************************************************************)
K_OCF == <<"Operating Cash Flow", "Total Cash From Operating Activities">>
K_NI == <<"Net Income">>
K_TA == <<"Total Assets">>
K_LTD == <<"Long Term Debt", "Long Term Debt And Capital Lease Obligation">>
K_CA == <<"Current Assets", "Total Current Assets">>
K_CL == <<"Current Liabilities", "Total Current Liabilities">>
K_SH == <<"Share Issued", "Ordinary Shares Number">>
K_GP == <<"Gross Profit">>
K_REV == <<"Total Revenue">>

\* Mutant of has_multi_year: the column counts are not checked.
has_multi_year_always(t) == TRUE

\* has_multi_year
has_multi_year(t) ==
    /\ t.financials.present
    /\ ~Empty(t.financials)
    /\ t.financials.ncols >= 2
    /\ t.balance_sheet.present
    /\ ~Empty(t.balance_sheet)
    /\ t.balance_sheet.ncols >= 2

\* all(v is not None and v > 0 for v in vs)
all_positive(vs) == \A j \in DOMAIN vs : vs[j] /= None /\ Gt(vs[j], Zero)

any_raise(vs) == \E j \in DOMAIN vs : vs[j] = Raise

\* A two-year ratio test: a_curr / b_curr > a_prev / b_prev, all four > 0.
\* vs = <<a_curr, b_curr, a_prev, b_prev>> in the order the code tests them.
ratio_test(vs) ==
    IF any_raise(vs) THEN "R"
    ELSE IF all_positive(vs) /\ Gt(Quot(vs[1], vs[2]), Quot(vs[3], vs[4]))
    THEN "P" ELSE "F"

\* A two-year "not increased" test: curr <= prev, both present.
le_test(curr, prev) ==
    IF any_raise(<<curr, prev>>) THEN "R"
    ELSE IF curr /= None /\ prev /= None /\ Le(curr, prev) THEN "P" ELSE "F"

\* 1. Positive ROA (roa > 0 on a string raises TypeError)
pio_test1(info) ==
    LET roa == info.returnOnAssets
    IN  IF roa = None \/ roa = NaN THEN "F"
        ELSE IF roa = Bad THEN "R"
        ELSE IF Gt(roa, Zero) THEN "P" ELSE "F"

\* 2. Positive operating cash flow
pio_test2(t) ==
    LET ocf == get_stmt_value(t.cashflow, K_OCF, 0)
    IN  IF ocf = Raise THEN "R"
        ELSE IF ocf /= None /\ Gt(ocf, Zero) THEN "P" ELSE "F"

\* 3. ROA improving vs prior year
pio_test3(t) ==
    IF ~has_multi_year(t) THEN "F"
    ELSE LET ni_curr == get_stmt_value(t.financials, K_NI, 0)
             ni_prev == get_stmt_value(t.financials, K_NI, 1)
             ta_curr == get_stmt_value(t.balance_sheet, K_TA, 0)
             ta_prev == get_stmt_value(t.balance_sheet, K_TA, 1)
         IN  ratio_test(<<ni_curr, ta_curr, ni_prev, ta_prev>>)

\* 4. Cash flow from operations > Net Income (ocf is the value resolved by
\* test 2)
pio_test4(t) ==
    LET ocf == get_stmt_value(t.cashflow, K_OCF, 0)
        ni == get_stmt_value(t.financials, K_NI, 0)
    IN  IF any_raise(<<ocf, ni>>) THEN "R"
        ELSE IF ocf /= None /\ ni /= None /\ Gt(ocf, ni) THEN "P" ELSE "F"

\* 5. Decreasing long-term debt
pio_test5(t) ==
    IF ~has_multi_year(t) THEN "F"
    ELSE le_test(get_stmt_value(t.balance_sheet, K_LTD, 0),
                 get_stmt_value(t.balance_sheet, K_LTD, 1))

\* 6. Improving current ratio
pio_test6(t) ==
    IF ~has_multi_year(t) THEN "F"
    ELSE LET ca_curr == get_stmt_value(t.balance_sheet, K_CA, 0)
             ca_prev == get_stmt_value(t.balance_sheet, K_CA, 1)
             cl_curr == get_stmt_value(t.balance_sheet, K_CL, 0)
             cl_prev == get_stmt_value(t.balance_sheet, K_CL, 1)
         IN  ratio_test(<<ca_curr, cl_curr, ca_prev, cl_prev>>)

\* 7. No share dilution
pio_test7(t) ==
    IF ~has_multi_year(t) THEN "F"
    ELSE le_test(get_stmt_value(t.balance_sheet, K_SH, 0),
                 get_stmt_value(t.balance_sheet, K_SH, 1))

\* 8. Improving gross margin
pio_test8(t) ==
    IF ~has_multi_year(t) THEN "F"
    ELSE LET gp_curr == get_stmt_value(t.financials, K_GP, 0)
             gp_prev == get_stmt_value(t.financials, K_GP, 1)
             rev_curr == get_stmt_value(t.financials, K_REV, 0)
             rev_prev == get_stmt_value(t.financials, K_REV, 1)
         IN  ratio_test(<<gp_curr, rev_curr, gp_prev, rev_prev>>)

\* 9. Improving asset turnover
pio_test9(t) ==
    IF ~has_multi_year(t) THEN "F"
    ELSE LET rev_curr == get_stmt_value(t.financials, K_REV, 0)
             rev_prev == get_stmt_value(t.financials, K_REV, 1)
             ta_curr == get_stmt_value(t.balance_sheet, K_TA, 0)
             ta_prev == get_stmt_value(t.balance_sheet, K_TA, 1)
         IN  ratio_test(<<rev_curr, ta_curr, rev_prev, ta_prev>>)

\* The outcome of each sub-test taken on its own: "P" its condition holds,
\* "F" it does not, "R" resolving its inputs raises.
pio_tests(t, info) ==
    <<pio_test1(info), pio_test2(t), pio_test3(t), pio_test4(t), pio_test5(t),
      pio_test6(t), pio_test7(t), pio_test8(t), pio_test9(t)>>

NumTests == 9

\* The statements of the try block run in order: the first sub-test that
\* raises leaves the block with the score accumulated so far.
RECURSIVE pio_block(_, _, _)
pio_block(res, k, score) ==
    IF k > NumTests THEN [score |-> score, raised |-> FALSE]
    ELSE IF res[k] = "R" THEN [score |-> score, raised |-> TRUE]
    ELSE pio_block(res, k + 1, score + (IF res[k] = "P" THEN 1 ELSE 0))

\* Mutant of pio_except: the handler does not catch the exception.
pio_except_narrow(body) == body

\* except Exception: log.debug(...); then return score
pio_except(body) == [score |-> body.score, raised |-> FALSE]

\* calculate_piotroski(ticker_obj, info) as a call: the score it returns and
\* whether an exception leaves it.
pio_call(t, info) == pio_except(pio_block(pio_tests(t, info), 1, 0))

calculate_piotroski(t, info) == pio_call(t, info).score

(***************************************************************************)
(* Per-ticker derivation (analyzer.py).  A provider answer is the record   *)
(* [info, t]: the snapshot map and the ticker object's statement tables.   *)
(***************************************************************************)
K_EBIT == <<"EBIT", "Operating Income">>
K_CASH == <<"Cash And Cash Equivalents",
            "Cash Cash Equivalents And Short Term Investments">>

\* Python truthiness of an optional float: None and 0.0 are falsy.
Truthy(v) == v /= None /\ v /= Zero

\* a or b
Or(a, b) == IF Truthy(a) THEN a ELSE b

\* The statement branch of calculate_roic: the value it returns, None when
\* it falls through to the fallback, Raise when a lookup raises.
roic_from_statements(t) ==
    LET fin == t.financials
        bs == t.balance_sheet
    IN  IF fin.present /\ ~Empty(fin) /\ bs.present /\ ~Empty(bs)
        THEN LET ebit == get_stmt_value(fin, K_EBIT, 0)
                 total_assets == get_stmt_value(bs, K_TA, 0)
                 cur_liab == get_stmt_value(bs, K_CL, 0)
                 cash0 == get_stmt_value(bs, K_CASH, 0)
             IN  IF any_raise(<<ebit, total_assets, cur_liab, cash0>>) THEN Raise
                 ELSE IF ebit /= None /\ total_assets /= None /\ cur_liab /= None
                 THEN LET cash == Or(cash0, Zero)
                          invested_capital == Minus(Minus(total_assets, cur_liab), cash)
                      IN  IF Gt(invested_capital, Zero)
                          THEN Quot(ebit, invested_capital)
                          ELSE None
                 ELSE None
        ELSE None

\* calculate_roic(ticker_obj, info): an exception of the statement branch is
\* swallowed; the fallback is safe(returnOnEquity).
calculate_roic(t, info) ==
    LET r == roic_from_statements(t)
    IN  IF r = Raise \/ r = None THEN safe(info.returnOnEquity) ELSE r

\* The columns of stock_metrics the model carries.  The eight further
\* snapshot columns (trailing_pe, forward_pe, price_to_book, ev_to_ebitda,
\* operating_margin, net_margin, current_ratio, earnings_growth) are
\* safe(info.get(...)) pass-throughs handled exactly like roe and roa.
fetch_ticker_data(ans) ==
    LET info == ans.info
    IN  IF info.regularMarketPrice = None THEN NoneR
        ELSE LET p1 == safe(info.currentPrice)
                 p2 == safe(info.regularMarketPrice)
                 market_cap == safe(info.marketCap)
                 ev == safe(info.enterpriseValue)
                 ebitda == safe(info.ebitda)
                 fcf == safe(info.freeCashflow)
                 roe == safe(info.returnOnEquity)
                 roa == safe(info.returnOnAssets)
                 gm == safe(info.grossMargins)
                 de == safe(info.debtToEquity)
                 rg == safe(info.revenueGrowth)
             IN  IF any_raise(<<p1, market_cap, ev, ebitda, fcf, roe, roa, gm,
                                de, rg>>)
                    \/ (~Truthy(p1) /\ p2 = Raise)
                 THEN RaiseR
                 ELSE [company_name |-> info.longName,
                       sector |-> info.sector,
                       industry |-> info.industry,
                       price |-> Or(p1, p2),
                       market_cap |-> market_cap,
                       enterprise_value |-> ev,
                       roe |-> roe,
                       roa |-> roa,
                       gross_margin |-> gm,
                       debt_to_equity |-> de,
                       revenue_growth |-> rg,
                       earnings_yield |->
                           IF Truthy(ebitda) /\ Truthy(ev) /\ Gt(ev, Zero)
                           THEN Quot(ebitda, ev) ELSE None,
                       fcf_yield |->
                           IF Truthy(fcf) /\ Truthy(market_cap) /\ Gt(market_cap, Zero)
                           THEN Quot(fcf, market_cap) ELSE None,
                       roic |-> calculate_roic(ans.t, info),
                       piotroski_score |-> Num(calculate_piotroski(ans.t, info))]

(***************************************************************************)
(* Persistence (analyzer.py).  A table is the sequence of its rows in      *)
(* insertion order; INSERT .. ON CONFLICT (key) DO UPDATE replaces the     *)
(* listed columns of the row holding the key, or appends a new row.        *)
(***************************************************************************)
MetricCols == {"price", "market_cap", "enterprise_value", "earnings_yield",
               "fcf_yield", "roic", "roe", "roa", "gross_margin",
               "debt_to_equity", "revenue_growth", "piotroski_score"}

\* params[col] = m.get(col) for col in cols
metric_params(m) == [c \in MetricCols |-> m[c]]

\* upsert_stock(engine, ticker, m)
upsert_stock(table, ticker, m) ==
    LET new == [ticker |-> ticker, company_name |-> m.company_name,
                sector |-> m.sector, industry |-> m.industry]
    IN  IF \E k \in DOMAIN table : table[k].ticker = ticker
        THEN [k \in DOMAIN table |->
                 IF table[k].ticker = ticker THEN new ELSE table[k]]
        ELSE Append(table, new)

\* Mutant of upsert_metrics: a plain INSERT, without the ON CONFLICT clause.
upsert_metrics_insert(table, ticker, m, today) ==
    Append(table, [ticker |-> ticker, calc_date |-> today,
                   m |-> [c \in MetricCols |-> m[c]],
                   magic_formula_rank |-> None,
                   composite_score |-> None,
                   signal |-> None])

\* Mutant of upsert_metrics: the insert gives signal a default of HOLD.
upsert_metrics_default(table, ticker, m, today) ==
    IF \E k \in DOMAIN table :
           table[k].ticker = ticker /\ table[k].calc_date = today
    THEN [k \in DOMAIN table |->
             IF table[k].ticker = ticker /\ table[k].calc_date = today
             THEN [table[k] EXCEPT !.m = [c \in MetricCols |-> m[c]]]
             ELSE table[k]]
    ELSE Append(table, [ticker |-> ticker, calc_date |-> today,
                        m |-> [c \in MetricCols |-> m[c]],
                        magic_formula_rank |-> None,
                        composite_score |-> None,
                        signal |-> <<"HOLD">>])

\* upsert_metrics(engine, ticker, m), with today the date it reads
upsert_metrics(table, ticker, m, today) ==
    IF \E k \in DOMAIN table :
           table[k].ticker = ticker /\ table[k].calc_date = today
    THEN [k \in DOMAIN table |->
             IF table[k].ticker = ticker /\ table[k].calc_date = today
             THEN [table[k] EXCEPT !.m = metric_params(m)]
             ELSE table[k]]
    ELSE Append(table, [ticker |-> ticker, calc_date |-> today,
                        m |-> metric_params(m),
                        magic_formula_rank |-> None,
                        composite_score |-> None,
                        signal |-> None])

(***************************************************************************)
(* Cross-sectional ranker (calculate_rankings).  Ranks are kept doubled:   *)
(* rank2 = 2 * (pandas average rank), so that ties stay integral.          *)
(***************************************************************************)
IsNA(v) == v \in {None, NaN}

\* 2 * Series.rank(ascending=asc, na_option="bottom")[j], method average
rank2(vals, j, asc) ==
    LET valid == {k \in DOMAIN vals : ~IsNA(vals[k])}
        na == DOMAIN vals \ valid
    IN  IF j \in na
        THEN 2 * Cardinality(valid) + Cardinality(na) + 1
        ELSE LET before == {k \in valid :
                              IF asc THEN Gt(vals[j], vals[k])
                                     ELSE Gt(vals[k], vals[j])}
                 same == {k \in valid : vals[k] = vals[j]}
             IN  2 * Cardinality(before) + Cardinality(same) + 1

\* SELECT ... FROM stock_metrics WHERE calc_date = :today
read_cohort(table, today) == SelectSeq(table, LAMBDA r : r.calc_date = today)

column(df, c) == [j \in DOMAIN df |-> df[j].m[c]]

roic_rank2(df) == [j \in DOMAIN df |-> rank2(column(df, "roic"), j, FALSE)]
ey_rank2(df) == [j \in DOMAIN df |-> rank2(column(df, "earnings_yield"), j, FALSE)]

\* roic_rank + ey_rank (doubled)
combined2(df) == [j \in DOMAIN df |-> Num(roic_rank2(df)[j] + ey_rank2(df)[j])]

Neg(vals) == [j \in DOMAIN vals |-> <<-vals[j][1], vals[j][2]>>]

\* Mutant of magic_formula_rank: the combined sums are ranked descending.
magic_formula_rank_desc(df, j) == rank2(combined2(df), j, FALSE) \div 2

\* (roic_rank + ey_rank).rank(ascending=True).astype(int)
magic_formula_rank(df, j) == rank2(combined2(df), j, TRUE) \div 2

\* Default weights, in hundredths.
w_mf == 30
w_pio == 25
w_fcf == 15
w_de == 10
w_rg == 10
w_gm == 10

\* The six scoring dimensions, the series each one ranks and the weight of
\* each.
Dims == {"mf", "pio", "fcf", "de", "rg", "gm"}

dim_series(df, dim) ==
    CASE dim = "mf" -> Neg(combined2(df))
      [] dim = "pio" -> column(df, "piotroski_score")
      [] dim = "fcf" -> column(df, "fcf_yield")
      [] dim = "de" -> column(df, "debt_to_equity")
      [] dim = "rg" -> column(df, "revenue_growth")
      [] OTHER -> column(df, "gross_margin")

\* The ascending argument of each pct call (its default is False).
dim_ascending(dim) == dim = "de"

weight(dim) ==
    CASE dim = "mf" -> w_mf
      [] dim = "pio" -> w_pio
      [] dim = "fcf" -> w_fcf
      [] dim = "de" -> w_de
      [] dim = "rg" -> w_rg
      [] OTHER -> w_gm

\* 2 * series.rank(ascending=ascending, na_option="bottom")[j]
dim_rank2(df, dim, j) == rank2(dim_series(df, dim), j, dim_ascending(dim))

\* pct(series, ascending)[j] = rank(..., pct=True) * 100 = 100 * rank / n
pct(df, dim, j) == Rat(100 * dim_rank2(df, dim, j), 2 * Len(df))

\* The composite score: sum of pct * weight = (sum of weight * rank2) / (2 n).
composite_score(df, j) ==
    LET n == Len(df)
        mf == dim_rank2(df, "mf", j)
        pio == dim_rank2(df, "pio", j)
        fcf == dim_rank2(df, "fcf", j)
        de == dim_rank2(df, "de", j)
        rg == dim_rank2(df, "rg", j)
        gm == dim_rank2(df, "gm", j)
    IN  Rat(mf * w_mf + pio * w_pio + fcf * w_fcf
            + de * w_de + rg * w_rg + gm * w_gm, 2 * n)

\* Mutant of signal_of: the thresholds are exclusive.
signal_of_strict(x) ==
    IF Gt(x, Num(70)) THEN "BUY" ELSE IF Gt(Num(30), x) THEN "SELL" ELSE "HOLD"

\* "BUY" if x >= 70 else ("SELL" if x <= 30 else "HOLD")
signal_of(x) ==
    IF Ge(x, Num(70)) THEN "BUY" ELSE IF Le(x, Num(30)) THEN "SELL" ELSE "HOLD"

\* round(a / b) to the nearest integer, halves to even (a >= 0, b > 0)
RoundHalfEven(a, b) ==
    LET q == a \div b
        r == a % b
    IN  IF 2 * r < b THEN q
        ELSE IF 2 * r > b THEN q + 1
        ELSE IF q % 2 = 0 THEN q ELSE q + 1

\* round(float(x), 2)
round2(x) == Rat(RoundHalfEven(100 * x[1], x[2]), 100)

\* The data frame after the ranking computations: one ranked row per
\* cohort row.
ranked_frame(df) ==
    [j \in DOMAIN df |->
        [ticker |-> df[j].ticker,
         magic_formula_rank |-> magic_formula_rank(df, j),
         composite_score |-> composite_score(df, j),
         signal |-> signal_of(composite_score(df, j))]]

\* One UPDATE stock_metrics SET ... WHERE ticker = :ticker AND calc_date = :today
update_rank(table, row, today) ==
    [k \in DOMAIN table |->
        IF table[k].ticker = row.ticker /\ table[k].calc_date = today
        THEN [table[k] EXCEPT !.magic_formula_rank = Num(row.magic_formula_rank),
                              !.composite_score = round2(row.composite_score),
                              !.signal = <<row.signal>>]
        ELSE table[k]]

\* The write-back transaction: for _, row in df.iterrows(): UPDATE ...
RECURSIVE write_back(_, _, _, _)
write_back(table, frame, today, j) ==
    IF j > Len(frame) THEN table
    ELSE write_back(update_rank(table, frame[j], today), frame, today, j + 1)

(***************************************************************************)
(* Persistence (rule1_analyzer.py).                                        *)
(***************************************************************************)
\* One INSERT .. ON CONFLICT (ticker, fiscal_year) DO UPDATE of upsert_annual
upsert_annual_row(table, ticker, row) ==
    IF \E k \in DOMAIN table :
           table[k].ticker = ticker /\ table[k].fiscal_year = row.fiscal_year
    THEN [k \in DOMAIN table |->
             IF table[k].ticker = ticker /\ table[k].fiscal_year = row.fiscal_year
             THEN [table[k] EXCEPT !.cols = row.cols]
             ELSE table[k]]
    ELSE Append(table, [ticker |-> ticker, fiscal_year |-> row.fiscal_year,
                        cols |-> row.cols])

RECURSIVE upsert_annual_from(_, _, _, _)
upsert_annual_from(table, ticker, annual_rows, j) ==
    IF j > Len(annual_rows) THEN table
    ELSE upsert_annual_from(upsert_annual_row(table, ticker, annual_rows[j]),
                            ticker, annual_rows, j + 1)

\* upsert_annual(engine, ticker, annual_rows): one transaction over all rows
upsert_annual(table, ticker, annual_rows) ==
    upsert_annual_from(table, ticker, annual_rows, 1)

\* upsert_summary(engine, ticker, summary), with today the date it reads
upsert_summary(table, ticker, summary, today) ==
    IF \E k \in DOMAIN table :
           table[k].ticker = ticker /\ table[k].calc_date = today
    THEN [k \in DOMAIN table |->
             IF table[k].ticker = ticker /\ table[k].calc_date = today
             THEN [table[k] EXCEPT !.cols = summary]
             ELSE table[k]]
    ELSE Append(table, [ticker |-> ticker, calc_date |-> today, cols |-> summary])

(***************************************************************************)
(* Growth metrics (rule1_analyzer.py).                                     *)
(***************************************************************************)
\* abs(v) on floats
AbsF(v) ==
    IF v = NegInf THEN PosInf
    ELSE IF IsNum(v) THEN <<Abs(v[1]), v[2]>>
    ELSE v

\* (end / start) ** (1 / years) - 1 for start > 0, end > 0, years > 0 (or
\* NaN operands).  The root is exact for one year and for the ratios 0, 1
\* and infinity; any other root is kept as the term <<"root", n, d, years>>
\* (the years-th root of n/d, minus 1).
cagr_value(start_val, end_val, years) ==
    LET ratio == Quot(end_val, start_val)
    IN  IF ratio = NaN THEN NaN
        ELSE IF ratio = PosInf THEN PosInf
        ELSE IF ratio = Zero THEN Num(-1)
        ELSE IF ratio = Num(1) THEN Zero
        ELSE IF years = Num(1) THEN Minus(ratio, Num(1))
        ELSE <<"root", ratio[1], ratio[2], years[1]>>

\* calculate_cagr(start_val, end_val, years); years is None or a whole
\* number of years.
calculate_cagr(start_val, end_val, years) ==
    IF start_val = None \/ end_val = None \/ years = None THEN None
    ELSE IF Le(years, Zero) THEN None
    ELSE IF Le(start_val, Zero) \/ Le(end_val, Zero) THEN None
    ELSE cagr_value(start_val, end_val, years)

\* yoy_growth(current, prior)
yoy_growth(current, prior) ==
    IF current = None \/ prior = None \/ prior = Zero THEN None
    ELSE Quot(Minus(current, prior), AbsF(prior))

\* dict.get(key): None when the key is missing
get(d, key) == IF key \in DOMAIN d THEN d[key] ELSE None

\* sorted(set)
RECURSIVE sorted(_)
sorted(S) ==
    IF S = {} THEN <<>>
    ELSE LET lo == CHOOSE x \in S : \A y \in S : x <= y
         IN  <<lo>> \o sorted(S \ {lo})

\* years.sort(key=lambda x: x[0]): ascending year, equal years in column order
RECURSIVE sort_years(_)
sort_years(P) ==
    IF P = {} THEN <<>>
    ELSE LET lo == CHOOSE p \in P :
                       \A q \in P : p[1] < q[1] \/ (p[1] = q[1] /\ p[2] <= q[2])
         IN  <<lo>> \o sort_years(P \ {lo})

\* get_fiscal_years(df): the (year, column index) pairs of the columns whose
\* label is a date; stmt.years[k] is the year of column k - 1, 0 for a label
\* without a year.
get_fiscal_years(stmt) ==
    IF ~stmt.present \/ Empty(stmt) THEN <<>>
    ELSE sort_years({<<stmt.years[k], k - 1>> :
                        k \in {j \in 1..stmt.ncols : stmt.years[j] /= 0}})

\* Mutant of extract_revenue: no year carries revenue.
extract_revenue_none(fin) == [yr \in {} |-> None]

\* extract_revenue(fin): result[yr] = rev / 1_000_000 for each (yr, col) with
\* a revenue value; a later pair of the same year overwrites an earlier one.
extract_revenue(fin) ==
    LET years == get_fiscal_years(fin)
        rev(k) == get_stmt_value_rule1(fin, K_REV, years[k][2])
        hit == {k \in DOMAIN years : rev(k) /= None}
    IN  [yr \in {years[k][1] : k \in hit} |->
            LET last == CHOOSE k \in hit :
                            /\ years[k][1] = yr
                            /\ \A j \in hit : years[j][1] = yr => j <= k
            IN  Quot(rev(last), Num(1000000))]

\* process_ticker: the fiscal years that carry data in one of the five
\* statement series, ascending.
all_years(src) ==
    sorted(DOMAIN src.roic_by_year \cup DOMAIN src.bvps_by_year
           \cup DOMAIN src.eps_by_year \cup DOMAIN src.rev_by_year
           \cup DOMAIN src.fcf_by_year)

\* extract_avg_prices(ticker_obj, years), given the yearly mean of the
\* closing prices (a history that fails or is empty is the empty dict).
extract_avg_prices(hist_by_year, years) ==
    [yr \in {y \in DOMAIN hist_by_year :
                 /\ \E k \in DOMAIN years : years[k] = y
                 /\ hist_by_year[y] /= NaN} |-> hist_by_year[yr]]

\* calculate_avg_pe(avg_prices, eps_by_year)
calculate_avg_pe(avg_prices, eps_by_year) ==
    [yr \in {y \in DOMAIN avg_prices :
                 /\ avg_prices[y] /= None
                 /\ get(eps_by_year, y) /= None
                 /\ Gt(get(eps_by_year, y), Zero)} |->
        Quot(avg_prices[yr], eps_by_year[yr])]

yoy_pairs ==
    <<<<"roic_pct", "roic_yoy">>,
      <<"book_value_per_share", "bvps_yoy">>,
      <<"earnings_per_share", "eps_yoy">>,
      <<"revenue_mil", "revenue_yoy">>,
      <<"fcf_mil", "fcf_yoy">>,
      <<"avg_share_price", "price_yoy">>,
      <<"avg_pe", "pe_yoy">>>>

cagr_map ==
    <<<<"roic_pct", "roic_ttm", "roic_cagr_full", "roic_cagr_recent">>,
      <<"book_value_per_share", "bvps_ttm", "bvps_cagr_full", "bvps_cagr_recent">>,
      <<"earnings_per_share", "eps_ttm", "eps_cagr_full", "eps_cagr_recent">>,
      <<"revenue_mil", "revenue_ttm_mil", "revenue_cagr_full", "revenue_cagr_recent">>,
      <<"fcf_mil", "fcf_ttm_mil", "fcf_cagr_full", "fcf_cagr_recent">>,
      <<"avg_share_price", "price_current", "price_cagr_full", "price_cagr_recent">>,
      <<"avg_pe", "pe_ttm", "pe_cagr_full", "pe_cagr_recent">>>>

RawKeys == {yoy_pairs[k][1] : k \in DOMAIN yoy_pairs}
YoyKeys == {yoy_pairs[k][2] : k \in DOMAIN yoy_pairs}
raw_key_of(yoy_key) ==
    yoy_pairs[CHOOSE k \in DOMAIN yoy_pairs : yoy_pairs[k][2] = yoy_key][1]

\* The seven series the rows are built from, by row key.
by_year(src) ==
    LET avg_prices == extract_avg_prices(src.hist_by_year, all_years(src))
    IN  [roic_pct |-> src.roic_by_year,
         book_value_per_share |-> src.bvps_by_year,
         earnings_per_share |-> src.eps_by_year,
         revenue_mil |-> src.rev_by_year,
         fcf_mil |-> src.fcf_by_year,
         avg_share_price |-> avg_prices,
         avg_pe |-> calculate_avg_pe(avg_prices, src.eps_by_year)]

\* prev = {}
no_prev == [k \in RawKeys |-> None]

\* Mutant of next_prev: prev keeps the last value that was present.
next_prev_present(prev, cols) ==
    [k \in RawKeys |-> IF cols[k] = None THEN prev[k] ELSE cols[k]]

\* prev = {k: row[k] for k, _ in yoy_pairs}
next_prev(prev, cols) == [k \in RawKeys |-> cols[k]]

\* The row of one fiscal year: the seven values and their YoY growth
\* against prev.
annual_row(by, yr, prev) ==
    [fiscal_year |-> yr,
     cols |-> [c \in RawKeys \cup YoyKeys |->
                  IF c \in RawKeys THEN get(by[c], yr)
                  ELSE yoy_growth(get(by[raw_key_of(c)], yr),
                                  prev[raw_key_of(c)])]]

\* for yr in all_years: ... annual_rows.append(row)
RECURSIVE annual_rows_from(_, _, _, _)
annual_rows_from(by, years, j, prev) ==
    IF j > Len(years) THEN <<>>
    ELSE LET row == annual_row(by, years[j], prev)
         IN  <<row>> \o annual_rows_from(by, years, j + 1,
                                         next_prev(prev, row.cols))

\* {} (a row without any key)
no_row == [cols |-> no_prev]

\* Mutant of second_to_last: the latest annual row.
second_to_last_latest(annual_rows) ==
    IF Len(annual_rows) >= 2 THEN annual_rows[Len(annual_rows)] ELSE no_row

\* second_to_last = annual_rows[-2] if len(annual_rows) >= 2 else {}
second_to_last(annual_rows) ==
    IF Len(annual_rows) >= 2 THEN annual_rows[Len(annual_rows) - 1] ELSE no_row

\* years_recent, with year_a and year_b the two reads of date.today().year
\* in the order the expression makes them.
years_recent(annual_rows, year_a, year_b) ==
    LET stl == second_to_last(annual_rows)
        d == year_a - (IF "fiscal_year" \in DOMAIN stl THEN stl.fiscal_year
                       ELSE year_b)
    IN  IF d <= 0 THEN None ELSE Num(d)

\* The summary dict: years_of_data, the full-period and recent CAGR of each
\* cagr_map entry, then summary.update(ttm).  (The snapshot columns that
\* summary.update(snapshot) adds are not modelled.)
summary_of(annual_rows, ttm, year_a, year_b) ==
    LET earliest == annual_rows[1]
        latest == annual_rows[Len(annual_rows)]
        years_full == Num(latest.fiscal_year - earliest.fiscal_year)
        stl == second_to_last(annual_rows)
        yrs == years_recent(annual_rows, year_a, year_b)
        entry(c) == CHOOSE k \in DOMAIN cagr_map :
                        cagr_map[k][3] = c \/ cagr_map[k][4] = c
    IN  [c \in {"years_of_data"} \cup DOMAIN ttm
               \cup {cagr_map[k][3] : k \in DOMAIN cagr_map}
               \cup {cagr_map[k][4] : k \in DOMAIN cagr_map} |->
            IF c \in DOMAIN ttm THEN ttm[c]
            ELSE IF c = "years_of_data" THEN Num(Len(annual_rows))
            ELSE IF cagr_map[entry(c)][3] = c
            THEN calculate_cagr(earliest.cols[cagr_map[entry(c)][1]],
                                latest.cols[cagr_map[entry(c)][1]], years_full)
            ELSE calculate_cagr(stl.cols[cagr_map[entry(c)][1]],
                                ttm[cagr_map[entry(c)][2]], yrs)]

\* process_ticker(symbol) on a provider answer: (None, None) when the
\* snapshot has no market price or no fiscal year carries data, else the
\* annual rows (ascending fiscal year) and the summary.
process_ticker(ans) ==
    IF ans.info.regularMarketPrice = None THEN NoneR
    ELSE IF all_years(ans.src) = <<>> THEN NoneR
    ELSE LET annual_rows == annual_rows_from(by_year(ans.src),
                                             all_years(ans.src), 1, no_prev)
         IN  [annual_rows |-> annual_rows,
              summary |-> summary_of(annual_rows, ans.ttm,
                                      ans.year_a, ans.year_b)]

(***************************************************************************)
(* Provider data.  What the provider holds for each symbol of the ticker   *)
(* file; it does not change during a behaviour.                            *)
(***************************************************************************)
Symbols == {"AAA", "BBB", "CCC"}

ProviderInfo(s) ==
    CASE s = "AAA" ->
           [longName |-> "Alpha", sector |-> "Tech", industry |-> "Software",
            regularMarketPrice |-> Num(10), currentPrice |-> Num(10),
            marketCap |-> Num(1000), enterpriseValue |-> Num(1200),
            ebitda |-> Num(120), freeCashflow |-> Num(50),
            returnOnEquity |-> Rat(1, 5), returnOnAssets |-> Rat(1, 10),
            grossMargins |-> Rat(2, 5), debtToEquity |-> Num(50),
            revenueGrowth |-> Rat(1, 10)]
      [] s = "BBB" ->
           [longName |-> "Beta", sector |-> "Energy", industry |-> "Oil",
            regularMarketPrice |-> Num(20), currentPrice |-> None,
            marketCap |-> Num(500), enterpriseValue |-> None,
            ebitda |-> Num(60), freeCashflow |-> None,
            returnOnEquity |-> Rat(3, 10), returnOnAssets |-> Rat(-1, 20),
            grossMargins |-> NaN, debtToEquity |-> None,
            revenueGrowth |-> Rat(-1, 10)]
      [] OTHER ->
           [longName |-> "Gamma", sector |-> "", industry |-> "",
            regularMarketPrice |-> Num(5), currentPrice |-> Num(5),
            marketCap |-> Num(200), enterpriseValue |-> Num(400),
            ebitda |-> Num(20), freeCashflow |-> Num(30),
            returnOnEquity |-> Rat(1, 10), returnOnAssets |-> Rat(1, 50),
            grossMargins |-> Rat(1, 5), debtToEquity |-> Num(120),
            revenueGrowth |-> PosInf]

ProviderTables(s) ==
    CASE s = "AAA" ->
           [financials |-> Table(2,
               [r \in {"Net Income", "Gross Profit", "Total Revenue", "EBIT"} |->
                   CASE r = "Net Income" -> <<Num(100), Num(80)>>
                     [] r = "Gross Profit" -> <<Num(400), Num(300)>>
                     [] r = "Total Revenue" -> <<Num(1000), Num(800)>>
                     [] OTHER -> <<Num(150), Num(120)>>]),
            balance_sheet |-> Table(2,
               [r \in {"Total Assets", "Current Liabilities", "Current Assets",
                       "Long Term Debt", "Share Issued",
                       "Cash And Cash Equivalents"} |->
                   CASE r = "Total Assets" -> <<Num(1000), Num(900)>>
                     [] r = "Current Liabilities" -> <<Num(200), Num(200)>>
                     [] r = "Current Assets" -> <<Num(500), Num(400)>>
                     [] r = "Long Term Debt" -> <<Num(100), Num(150)>>
                     [] r = "Share Issued" -> <<Num(10), Num(10)>>
                     [] OTHER -> <<Num(100), Num(50)>>]),
            cashflow |-> Table(2,
               [r \in {"Operating Cash Flow"} |-> <<Num(150), Num(100)>>])]
      [] s = "BBB" ->
           [financials |-> Table(1, [r \in {"Net Income"} |-> <<Num(50)>>]),
            balance_sheet |-> Table(1, [r \in {"Total Assets"} |-> <<Num(600)>>]),
            cashflow |-> Table(1,
               [r \in {"Total Cash From Operating Activities"} |-> <<Num(40)>>])]
      [] OTHER ->
           [financials |-> NoTable, balance_sheet |-> NoTable,
            cashflow |-> NoTable]

\* A dict keyed by fiscal year.
NoYears == [yr \in {} |-> None]
Dict2(y1, v1, y2, v2) == [yr \in {y1, y2} |-> IF yr = y1 THEN v1 ELSE v2]

\* The by-year series that the extract_* functions derive from the
\* statements and the price history of a symbol.
ProviderSeries(s) ==
    CASE s = "AAA" ->
           [roic_by_year |-> Dict2(2022, Num(15), 2023, Num(18)),
            bvps_by_year |-> Dict2(2022, Num(40), 2023, Num(50)),
            eps_by_year |-> Dict2(2022, Num(8), 2023, Num(10)),
            rev_by_year |-> Dict2(2022, Num(800), 2023, Num(1000)),
            fcf_by_year |-> NoYears,
            hist_by_year |-> Dict2(2022, Num(80), 2023, Num(120))]
      [] s = "BBB" ->
           [roic_by_year |-> NoYears, bvps_by_year |-> NoYears,
            eps_by_year |-> Dict2(2023, Num(5), 2023, Num(5)),
            rev_by_year |-> NoYears, fcf_by_year |-> NoYears,
            hist_by_year |-> NoYears]
      [] OTHER ->
           [roic_by_year |-> NoYears, bvps_by_year |-> NoYears,
            eps_by_year |-> NoYears, rev_by_year |-> NoYears,
            fcf_by_year |-> NoYears, hist_by_year |-> NoYears]

\* extract_ttm_values(ticker_obj, info) for a symbol
ProviderTtm(s) ==
    [roic_ttm |-> IF s = "AAA" THEN Num(20) ELSE None,
     bvps_ttm |-> IF s = "AAA" THEN Num(55) ELSE None,
     eps_ttm |-> IF s = "CCC" THEN None ELSE Num(12),
     revenue_ttm_mil |-> None,
     fcf_ttm_mil |-> None,
     price_current |-> ProviderInfo(s).regularMarketPrice,
     pe_ttm |-> None]

\* date.today().year while the program runs
CurrentYear == 2024

\* The provider's answer for a symbol: its data, or a snapshot without a
\* market price ("no data for this ticker").
Answer(s, kind) ==
    [info |-> IF kind = "nodata"
              THEN [ProviderInfo(s) EXCEPT !.regularMarketPrice = None]
              ELSE ProviderInfo(s),
     t |-> ProviderTables(s),
     src |-> ProviderSeries(s),
     ttm |-> ProviderTtm(s),
     year_a |-> CurrentYear,
     year_b |-> CurrentYear]

(***************************************************************************)
(* Inputs of calculate_piotroski: a base data set, in which cells of the   *)
(* statement tables and the snapshot's returnOnAssets are then overwritten.*)
(***************************************************************************)
MaxEdits == 2

AbsentInfo == [returnOnAssets |-> None]

AbsentTables == [financials |-> NoTable, balance_sheet |-> NoTable,
                 cashflow |-> NoTable]

\* Two fiscal years in which every two-year comparison got worse.
DecliningTables ==
    [financials |-> Table(2,
        [r \in {"Net Income", "Gross Profit", "Total Revenue"} |->
            CASE r = "Net Income" -> <<Num(50), Num(80)>>
              [] r = "Gross Profit" -> <<Num(200), Num(300)>>
              [] OTHER -> <<Num(700), Num(800)>>]),
     balance_sheet |-> Table(2,
        [r \in {"Total Assets", "Total Current Liabilities",
                "Total Current Assets",
                "Long Term Debt And Capital Lease Obligation",
                "Ordinary Shares Number"} |->
            CASE r = "Total Assets" -> <<Num(1000), Num(900)>>
              [] r = "Total Current Liabilities" -> <<Num(300), Num(200)>>
              [] r = "Total Current Assets" -> <<Num(400), Num(400)>>
              [] r = "Long Term Debt And Capital Lease Obligation" ->
                   <<Num(200), Num(150)>>
              [] OTHER -> <<Num(12), Num(10)>>]),
     cashflow |-> Table(2,
        [r \in {"Operating Cash Flow"} |-> <<Num(-20), Num(100)>>])]

PioBases ==
    {[t |-> AbsentTables, info |-> AbsentInfo],
     [t |-> ProviderTables("AAA"),
      info |-> [returnOnAssets |-> ProviderInfo("AAA").returnOnAssets]],
     [t |-> ProviderTables("BBB"),
      info |-> [returnOnAssets |-> ProviderInfo("BBB").returnOnAssets]],
     [t |-> DecliningTables, info |-> [returnOnAssets |-> Rat(-1, 50)]]}

\* The cells an edit may overwrite: <<statement, line item, column>>.
PioCells ==
    <<<<"cashflow", "Operating Cash Flow", 0>>,
      <<"cashflow", "Total Cash From Operating Activities", 0>>,
      <<"financials", "Net Income", 0>>,
      <<"financials", "Net Income", 1>>,
      <<"financials", "Gross Profit", 0>>,
      <<"financials", "Gross Profit", 1>>,
      <<"financials", "Total Revenue", 0>>,
      <<"financials", "Total Revenue", 1>>,
      <<"balance_sheet", "Total Assets", 0>>,
      <<"balance_sheet", "Total Assets", 1>>,
      <<"balance_sheet", "Long Term Debt", 0>>,
      <<"balance_sheet", "Long Term Debt", 1>>,
      <<"balance_sheet", "Current Assets", 0>>,
      <<"balance_sheet", "Current Assets", 1>>,
      <<"balance_sheet", "Current Liabilities", 0>>,
      <<"balance_sheet", "Current Liabilities", 1>>,
      <<"balance_sheet", "Share Issued", 0>>,
      <<"balance_sheet", "Share Issued", 1>>>>

\* The values an edit may write: missing, a non-numeric string, zero, a
\* large amount, infinity.
PioValues == {NaN, Bad, Zero, Num(100000), PosInf}

\* The table with the cell (row, col) set to v: the row is added when the
\* index lacks it, a table that is None becomes a two-period table.
set_cell(df, row, col, v) ==
    LET n == IF df.present /\ df.ncols > col THEN df.ncols ELSE 2
        old == IF df.present THEN df.rows ELSE <<>>
        cells(r) == [c \in 1..n |->
                       IF r = row /\ c = col + 1 THEN v
                       ELSE IF r \in DOMAIN old /\ c <= Len(old[r]) THEN old[r][c]
                       ELSE NaN]
    IN  Table(n, [r \in (DOMAIN old) \cup {row} |-> cells(r)])

(***************************************************************************)
(* main: the batch loop, then the ranking (analyzer.py) or the report      *)
(* (rule1_analyzer.py).  prog selects the script; both loops have the same *)
(* shape: fetch/derive, two upserts, the inter-ticker sleep, all inside    *)
(* one try whose except counts an error.                                   *)
(***************************************************************************)
MaxTickers == 2
MaxDay == 2

\* DELAY_SECONDS as configured; time.sleep raises ValueError on a negative
\* length.
DelayValues == {-1, 1}

TickerLists == UNION {[1..n -> Symbols] : n \in 0..MaxTickers}

VARIABLES
    prog,           \* "analyzer" or "rule1": the script that runs
    tickers,        \* get_tickers(): the ticker list
    DELAY,          \* the configured delay
    today,          \* the latest date the clock has shown
    run,            \* 1: first run of the script, 2: the run after it
    pc,             \* position in main
    i,              \* enumerate index of the loop (1-based)
    metrics,        \* what fetch_ticker_data / process_ticker returned
    success,
    errors,
    stocks,         \* table stocks
    stock_metrics,  \* table stock_metrics
    rule1_annual,   \* table rule1_annual
    rule1_summary,  \* table rule1_summary
    df,             \* the cohort read by calculate_rankings
    rank_today,     \* today as read by calculate_rankings
    env,            \* what the provider and the database answered in this run
    first_env,      \* the same, for the first run
    hist,           \* observations of this run (history, not program state)
    snap,           \* tables and dates at the end of the first run
    pio_in,         \* calculate_piotroski: the ticker object and info passed
    pio_out,        \* calculate_piotroski: the outcome of the call
    pio_last,       \* calculate_piotroski: edits made to the inputs
    call,           \* a function studied on its own: name, arguments, result
    edit            \* calculate_rankings: the value changed between two passes

vars == <<prog, tickers, DELAY, today, run, pc, i, metrics, success, errors,
          stocks, stock_metrics, rule1_annual, rule1_summary, df, rank_today,
          env, first_env, hist, snap, pio_in, pio_out, pio_last, call, edit>>

\* Mutant of loop_next: the loop stops one symbol short.
loop_next_short(k, n) == IF k < n THEN "fetch" ELSE "final"

\* for i, symbol in enumerate(tickers, 1): the next iteration, or the phase
\* after the loop
loop_next(k, n) == IF k <= n THEN "fetch" ELSE "final"

\* Mutant of after_except: an error ends the batch.
after_except_abort(k, n) == "final"

\* except Exception: errors += 1, and the loop goes on with the next symbol
after_except(k, n) == loop_next(k + 1, n)

\* if i < len(tickers): time.sleep(DELAY)
sleep_due(k, n) == k < n

\* time.sleep(d) raises ValueError for a negative d
sleep_raises(d) == d < 0

\* Mutant of cohort_empty: the empty-cohort check is missing.
cohort_empty_never(frame) == FALSE

\* if df.empty: log and return
cohort_empty(frame) == Len(frame) = 0

HistInit ==
    [attempted |-> <<>>,      \* symbols requested from the provider, in order
     outcomes |-> <<>>,       \* per finished ticker: how its step ended
     gap |-> "start",         \* since the last request: "req", then "delay"
     undelayed |-> FALSE,     \* a request followed another without a delay
     delay_before_final |-> FALSE,
     final_reads |-> 0,       \* cohort reads of the ranker / report reads
     rank_writes |-> 0,       \* write-back transactions of the ranker
     late_writes |-> FALSE,   \* a per-ticker write after the cohort read
     persisted |-> {},        \* symbols whose second upsert committed
     ranked |-> {},           \* symbols the write-back updated
     dates |-> {}]            \* dates read from the clock

\* No call of calculate_piotroski is under study.
PioIdle ==
    /\ pio_in = [t |-> AbsentTables, info |-> AbsentInfo]
    /\ pio_out = pio_call(AbsentTables, AbsentInfo)
    /\ pio_last = <<0, 0>>

\* No function is studied on its own, no value was changed.
NoCall == [fn |-> "none"]
NoEdit == [row |-> 0]

CalcIdle ==
    /\ call = NoCall
    /\ edit = NoEdit

Init ==
    /\ prog \in {"analyzer", "rule1"}
    /\ tickers \in TickerLists
    /\ DELAY \in DelayValues
    /\ today = 1
    /\ run = 1
    /\ pc = loop_next(1, Len(tickers))
    /\ i = 1
    /\ metrics = NoneR
    /\ success = 0
    /\ errors = 0
    /\ stocks = <<>>
    /\ stock_metrics = <<>>
    /\ rule1_annual = <<>>
    /\ rule1_summary = <<>>
    /\ df = <<>>
    /\ rank_today = 0
    /\ env = <<>>
    /\ first_env = <<>>
    /\ hist = HistInit
    /\ snap = <<>>
    /\ PioIdle
    /\ CalcIdle

\* The answers the environment may give at this point: any in the first
\* run; in the second run the provider and the database answer as they did
\* in the first ("unchanged input data").
Choices(S) ==
    IF run = 1 THEN S
    ELSE IF Len(env) < Len(first_env) THEN S \cap {first_env[Len(env) + 1]}
    ELSE {}

\* date.today(): the clock never runs backwards
ClockReads == today..MaxDay

tables == <<stocks, stock_metrics, rule1_annual, rule1_summary>>
ranker == <<df, rank_today>>
pio == <<pio_in, pio_out, pio_last>>
calc == <<call, edit>>
config == <<prog, tickers, DELAY, run, first_env, snap, pio, calc>>

\* metrics = fetch_ticker_data(symbol) / process_ticker(symbol)
Fetch ==
    /\ pc = "fetch"
    /\ \E kind \in Choices({"raise", "nodata", "ok"}) :
          LET sym == tickers[i]
              res == IF kind = "raise" THEN RaiseR
                     ELSE IF prog = "analyzer"
                     THEN fetch_ticker_data(Answer(sym, kind))
                     ELSE process_ticker(Answer(sym, kind))
              h == [hist EXCEPT !.attempted = Append(@, sym),
                                !.undelayed = @ \/ hist.gap = "req",
                                !.gap = "req"]
          IN  /\ env' = Append(env, kind)
              /\ IF res = RaiseR
                 THEN /\ errors' = errors + 1
                      /\ hist' = [h EXCEPT !.outcomes = Append(@, "raised")]
                      /\ i' = i + 1
                      /\ pc' = after_except(i, Len(tickers))
                      /\ UNCHANGED metrics
                 ELSE IF res = NoneR
                 THEN /\ errors' = errors + 1
                      /\ hist' = [h EXCEPT !.outcomes = Append(@, "skipped")]
                      /\ pc' = "sleep"
                      /\ UNCHANGED <<i, metrics>>
                 ELSE /\ metrics' = res
                      /\ hist' = h
                      /\ pc' = "persist1"
                      /\ UNCHANGED <<i, errors>>
    /\ UNCHANGED <<config, today, success, tables, ranker>>

\* upsert_stock(engine, symbol, metrics) / upsert_annual(engine, symbol, rows)
Persist1 ==
    /\ pc = "persist1"
    /\ \E c \in Choices({"commit", "raise"}) :
          /\ env' = Append(env, c)
          /\ IF c = "commit"
             THEN /\ IF prog = "analyzer"
                     THEN /\ stocks' = upsert_stock(stocks, tickers[i], metrics)
                          /\ UNCHANGED rule1_annual
                     ELSE /\ rule1_annual' = upsert_annual(rule1_annual, tickers[i],
                                                           metrics.annual_rows)
                          /\ UNCHANGED stocks
                  /\ hist' = [hist EXCEPT !.late_writes = @ \/ hist.final_reads > 0]
                  /\ pc' = "persist2"
                  /\ UNCHANGED <<i, errors>>
             ELSE /\ errors' = errors + 1
                  /\ hist' = [hist EXCEPT !.outcomes = Append(@, "raised")]
                  /\ i' = i + 1
                  /\ pc' = after_except(i, Len(tickers))
                  /\ UNCHANGED <<stocks, rule1_annual>>
    /\ UNCHANGED <<config, today, metrics, success, stock_metrics, rule1_summary,
                   ranker>>

\* upsert_metrics(engine, symbol, metrics) / upsert_summary(engine, symbol,
\* summary), then success += 1
Persist2 ==
    /\ pc = "persist2"
    /\ \E c \in Choices({"commit", "raise"}), d \in ClockReads :
          /\ env' = Append(env, c)
          /\ today' = d
          /\ IF c = "commit"
             THEN /\ IF prog = "analyzer"
                     THEN /\ stock_metrics' =
                                upsert_metrics(stock_metrics, tickers[i], metrics, d)
                          /\ UNCHANGED rule1_summary
                     ELSE /\ rule1_summary' =
                                upsert_summary(rule1_summary, tickers[i],
                                               metrics.summary, d)
                          /\ UNCHANGED stock_metrics
                  /\ success' = success + 1
                  /\ hist' = [hist EXCEPT
                                !.outcomes = Append(@, "persisted"),
                                !.late_writes = @ \/ hist.final_reads > 0,
                                !.persisted = @ \cup {tickers[i]},
                                !.dates = @ \cup {d}]
                  /\ pc' = "sleep"
                  /\ UNCHANGED <<i, errors>>
             ELSE /\ errors' = errors + 1
                  /\ hist' = [hist EXCEPT !.outcomes = Append(@, "raised"),
                                          !.dates = @ \cup {d}]
                  /\ i' = i + 1
                  /\ pc' = after_except(i, Len(tickers))
                  /\ UNCHANGED <<success, stock_metrics, rule1_summary>>
    /\ UNCHANGED <<config, metrics, stocks, rule1_annual, ranker>>

\* if i < len(tickers): time.sleep(DELAY), the last statement of the try
Sleep ==
    /\ pc = "sleep"
    /\ IF sleep_due(i, Len(tickers))
       THEN IF sleep_raises(DELAY)
            THEN /\ errors' = errors + 1
                 /\ pc' = after_except(i, Len(tickers))
                 /\ UNCHANGED hist
            ELSE /\ hist' = [hist EXCEPT !.gap = "delay"]
                 /\ pc' = loop_next(i + 1, Len(tickers))
                 /\ UNCHANGED errors
       ELSE /\ pc' = loop_next(i + 1, Len(tickers))
            /\ UNCHANGED <<hist, errors>>
    /\ i' = i + 1
    /\ UNCHANGED <<config, today, metrics, success, tables, ranker, env>>

\* calculate_rankings(engine), up to the empty-cohort check
RankRead ==
    /\ pc = "final"
    /\ prog = "analyzer"
    /\ \E d \in ClockReads :
          /\ today' = d
          /\ rank_today' = d
          /\ df' = read_cohort(stock_metrics, d)
          /\ hist' = [hist EXCEPT !.final_reads = @ + 1,
                                  !.delay_before_final = (hist.gap = "delay"),
                                  !.dates = @ \cup {d}]
          /\ pc' = IF cohort_empty(df') THEN "done" ELSE "rank_write"
    /\ UNCHANGED <<config, i, metrics, success, errors, tables, env>>

\* calculate_rankings(engine): the ranks, the scores and the write-back
RankWrite ==
    /\ pc = "rank_write"
    /\ stock_metrics' = write_back(stock_metrics, ranked_frame(df), rank_today, 1)
    /\ hist' = [hist EXCEPT
                  !.rank_writes = @ + 1,
                  !.ranked = {stock_metrics[k].ticker :
                                k \in {x \in DOMAIN stock_metrics :
                                         /\ stock_metrics[x].calc_date = rank_today
                                         /\ \E j \in DOMAIN df :
                                               df[j].ticker = stock_metrics[x].ticker}}]
    /\ pc' = "done"
    /\ UNCHANGED <<config, today, i, metrics, success, errors, stocks,
                   rule1_annual, rule1_summary, ranker, env>>

\* print_rule1_report(engine): reads rule1_summary for today, writes nothing
Report ==
    /\ pc = "final"
    /\ prog = "rule1"
    /\ \E d \in ClockReads :
          /\ today' = d
          /\ hist' = [hist EXCEPT !.final_reads = @ + 1,
                                  !.delay_before_final = (hist.gap = "delay"),
                                  !.dates = @ \cup {d}]
    /\ pc' = "done"
    /\ UNCHANGED <<config, i, metrics, success, errors, tables, ranker, env>>

\* The script is started again (the scheduled job's next execution): same
\* ticker file, same configuration, same provider data.
Rerun ==
    /\ pc = "done"
    /\ run = 1
    /\ run' = 2
    /\ first_env' = env
    /\ snap' = <<[stocks |-> stocks, stock_metrics |-> stock_metrics,
                  rule1_annual |-> rule1_annual, rule1_summary |-> rule1_summary,
                  dates |-> hist.dates]>>
    /\ pc' = loop_next(1, Len(tickers))
    /\ i' = 1
    /\ metrics' = NoneR
    /\ success' = 0
    /\ errors' = 0
    /\ df' = <<>>
    /\ rank_today' = 0
    /\ env' = <<>>
    /\ hist' = HistInit
    /\ UNCHANGED <<prog, tickers, DELAY, today, tables, pio, calc>>

Next == Fetch \/ Persist1 \/ Persist2 \/ Sleep \/ RankRead \/ RankWrite
        \/ Report \/ Rerun

Spec == Init /\ [][Next]_vars

(***************************************************************************)
(* calculate_piotroski as a function of its inputs: every state holds an   *)
(* input (a base data set with at most MaxEdits cells overwritten, edited  *)
(* in the order of PioCells) and the outcome of the call on it.            *)
(***************************************************************************)
PipelineIdle ==
    /\ prog = "analyzer"
    /\ tickers = <<>>
    /\ DELAY = 1
    /\ today = 1
    /\ run = 1
    /\ pc = "idle"
    /\ i = 1
    /\ metrics = NoneR
    /\ success = 0
    /\ errors = 0
    /\ stocks = <<>>
    /\ stock_metrics = <<>>
    /\ rule1_annual = <<>>
    /\ rule1_summary = <<>>
    /\ df = <<>>
    /\ rank_today = 0
    /\ env = <<>>
    /\ first_env = <<>>
    /\ hist = HistInit
    /\ snap = <<>>
    /\ CalcIdle

pipeline == <<prog, tickers, DELAY, today, run, pc, i, metrics, success, errors,
              tables, ranker, env, first_env, hist, snap, calc>>

PioInit ==
    /\ PipelineIdle
    /\ pio_in \in PioBases
    /\ pio_out = pio_call(pio_in.t, pio_in.info)
    /\ pio_last = <<0, 0>>

\* Overwrite one statement cell, then call calculate_piotroski.
PioEditCell ==
    /\ pio_last[2] < MaxEdits
    /\ \E k \in (pio_last[1] + 1)..Len(PioCells), v \in PioValues :
          LET cell == PioCells[k]
              t2 == [pio_in.t EXCEPT
                       ![cell[1]] = set_cell(@, cell[2], cell[3], v)]
          IN  /\ pio_in' = [pio_in EXCEPT !.t = t2]
              /\ pio_out' = pio_call(t2, pio_in.info)
              /\ pio_last' = <<k, pio_last[2] + 1>>
    /\ UNCHANGED pipeline

\* Overwrite info["returnOnAssets"], then call calculate_piotroski.
PioEditRoa ==
    /\ pio_last[2] < MaxEdits
    /\ pio_last[1] <= Len(PioCells)
    /\ \E v \in PioValues :
          /\ pio_in' = [pio_in EXCEPT !.info.returnOnAssets = v]
          /\ pio_out' = pio_call(pio_in.t, pio_in'.info)
          /\ pio_last' = <<Len(PioCells) + 1, pio_last[2] + 1>>
    /\ UNCHANGED pipeline

PioNext == PioEditCell \/ PioEditRoa

PioSpec == PioInit /\ [][PioNext]_vars

(***************************************************************************)
(* Properties of main (under Spec).                                        *)
(***************************************************************************)
AfterLoop == pc \in {"final", "rank_write", "done"}

\* C1: in a run of analyzer.main the ranker starts only after every ticker
\* of the list has finished its per-ticker step, no per-ticker write follows
\* the ranker's read of the cohort, and the ranker runs exactly once per run.
C1_RankerAfterBatch ==
    prog = "analyzer" =>
        /\ hist.final_reads <= 1
        /\ hist.rank_writes <= hist.final_reads
        /\ (pc = "done" => hist.final_reads = 1)
        /\ (hist.final_reads > 0 => pc \in {"rank_write", "done"})
        /\ (AfterLoop => /\ Len(hist.outcomes) = Len(tickers)
                         /\ hist.attempted = tickers)
        /\ ~hist.late_writes

C1_Witness ==
    /\ prog = "analyzer"
    /\ pc = "done"
    /\ Len(tickers) = 2
    /\ hist.rank_writes = 1
    /\ hist.outcomes = <<"raised", "persisted">>

\* C2: whatever subset of the tickers fails, the loop attempts every ticker
\* of the list exactly once, in list order, and then reaches the ranking or
\* report phase; a failure never stops the loop.
C2_EveryTickerAttempted ==
    /\ Len(hist.attempted) <= Len(tickers)
    /\ hist.attempted = SubSeq(tickers, 1, Len(hist.attempted))
    /\ (pc = "fetch" => Len(hist.attempted) = i - 1)
    /\ (pc \in {"persist1", "persist2", "sleep"} => Len(hist.attempted) = i)
    /\ (AfterLoop => hist.attempted = tickers)

C2_Witness ==
    /\ pc = "done"
    /\ Len(tickers) = 2
    /\ hist.outcomes = <<"raised", "persisted">>
    /\ hist.attempted = tickers

CountOf(seq, x) == Cardinality({k \in DOMAIN seq : seq[k] = x})

\* C3: when the loop ends, success + errors equals the number of tickers:
\* every ticker is counted once, as a success only if its records were
\* persisted in this run, as a failure if it was skipped or raised.
C3_CountsAddUp ==
    AfterLoop =>
        /\ success + errors = Len(tickers)
        /\ success = CountOf(hist.outcomes, "persisted")
        /\ errors = Len(tickers) - CountOf(hist.outcomes, "persisted")

\* C4: between the provider requests of two consecutive tickers the delay
\* is always taken, whatever the outcome of the earlier ticker, and no
\* delay is taken between the last ticker and the ranking phase.
C4_DelayBetweenRequests ==
    /\ ~hist.undelayed
    /\ ~hist.delay_before_final

UniqueKeys(table, Key(_)) ==
    \A a, b \in DOMAIN table : Key(table[a]) = Key(table[b]) => a = b

DailyKey(r) == <<r.ticker, r.calc_date>>
AnnualKey(r) == <<r.ticker, r.fiscal_year>>
MasterKey(r) == r.ticker

OneDate == Cardinality(snap[1].dates \cup hist.dates) = 1

RankFields(r) == <<r.magic_formula_rank, r.composite_score, r.signal>>

\* C6: magic_formula_rank, composite_score and signal of a stock_metrics
\* record are null at its creation and are changed by no step other than
\* the ranker's write-back: upsert_metrics sets them neither on insert nor
\* on conflict-update.
C6_RankFieldsOnlyByRanker ==
    [][\A k \in DOMAIN stock_metrics' :
          IF k \in DOMAIN stock_metrics
          THEN pc /= "rank_write" =>
                  RankFields(stock_metrics'[k]) = RankFields(stock_metrics[k])
          ELSE RankFields(stock_metrics'[k]) = <<None, None, None>>]_vars

\* A conflict-update by upsert_metrics has just rewritten a ranked record.
C6_Witness ==
    /\ prog = "analyzer"
    /\ run = 2
    /\ pc = "sleep"
    /\ \E k \in DOMAIN stock_metrics :
          /\ stock_metrics[k].ticker = tickers[i]
          /\ stock_metrics[k].calc_date = today
          /\ stock_metrics[k].signal /= None
          /\ Len(stock_metrics) = Len(snap[1].stock_metrics)

\* C7: every ticker counted as a success in a run of analyzer.main receives
\* its rank, score and signal from that run's ranking pass.
C7_EveryPersistedRanked ==
    (prog = "analyzer" /\ pc = "done") => hist.persisted \subseteq hist.ranked

\* C8: if no stock_metrics record exists for the date the ranker reads, the
\* ranker returns at its empty-cohort check: no write-back, and every table
\* is left unchanged.
C8_EmptyCohortNoOp ==
    [][(pc = "final" /\ prog = "analyzer"
        /\ read_cohort(stock_metrics, today') = <<>>)
       => (pc' = "done" /\ hist'.rank_writes = hist.rank_writes
           /\ UNCHANGED tables)]_vars

\* Every ticker of a two-ticker run failed or was skipped, and the ranker
\* has returned.
C8_Witness ==
    /\ prog = "analyzer"
    /\ pc = "done"
    /\ Len(tickers) = 2
    /\ hist.persisted = {}
    /\ hist.final_reads = 1
    /\ hist.rank_writes = 0
    /\ stock_metrics = <<>>

(***************************************************************************)
(* Properties of calculate_piotroski (under PioSpec).                      *)
(***************************************************************************)
PioResults == pio_tests(pio_in.t, pio_in.info)

PioAllAbsent == pio_in = [t |-> AbsentTables, info |-> AbsentInfo]

\* C9: calculate_piotroski returns an integer in 0..9 for every combination
\* of present, absent, non-numeric and non-positive inputs and never
\* raises; with every table and snapshot field absent the score is 0.
C9_ScoreInRange ==
    /\ pio_out.raised = FALSE
    /\ pio_out.score \in 0..NumTests
    /\ (PioAllAbsent => pio_out.score = 0)

\* A sub-test raised inside the call, after earlier sub-tests had passed.
C9_Witness ==
    /\ \E k \in 1..NumTests : PioResults[k] = "R"
    /\ pio_out.score >= 2
    /\ pio_out.raised = FALSE

\* C10: if resolving the inputs of one sub-test raises, that sub-test
\* contributes 0 and every other sub-test still contributes its point: the
\* score is the number of sub-tests that pass.
C10_OtherTestsStillCount ==
    pio_out.score = Cardinality({k \in 1..NumTests : PioResults[k] = "P"})

\* The income statement or the balance sheet has fewer than two period
\* columns.
SingleYear ==
    pio_in.t.financials.ncols < 2 \/ pio_in.t.balance_sheet.ncols < 2

TwoYearTests == {3, 5, 6, 7, 8, 9}

\* The score that tests 1, 2 and 4 alone give: their passes up to the first
\* of them that raises.
ScoreOf124 ==
    LET r == PioResults
        pt(k) == IF r[k] = "P" THEN 1 ELSE 0
    IN  IF r[1] = "R" THEN 0
        ELSE IF r[2] = "R" THEN pt(1)
        ELSE IF r[4] = "R" THEN pt(1) + pt(2)
        ELSE pt(1) + pt(2) + pt(4)

\* C11: with fewer than two period columns in the income statement or the
\* balance sheet, each of the six two-year tests contributes 0; the score
\* is at most 3 and is the score of tests 1, 2 and 4.
C11_SingleYearScore ==
    SingleYear =>
        /\ \A k \in TwoYearTests : PioResults[k] = "F"
        /\ pio_out.score <= 3
        /\ pio_out.score = ScoreOf124

\* One-column statements on which tests 1, 2 and 4 all pass.
C11_Witness ==
    /\ pio_in.t.financials.present
    /\ pio_in.t.financials.ncols = 1
    /\ pio_in.t.balance_sheet.ncols = 1
    /\ pio_out.score = 3

(***************************************************************************)
(* calculate_rankings as a function of the cohort: the day's records as    *)
(* the per-ticker phase wrote them, then the ranking pass.  One value of   *)
(* one record may then be replaced by a later upsert of that ticker and    *)
(* the cohort ranked again.                                                *)
(***************************************************************************)
MaxCohort == 4

RankTickers == <<"T1", "T2", "T3", "T4", "T5", "T6">>

\* The columns the ranker reads.
RankCols == {"roic", "earnings_yield", "piotroski_score", "fcf_yield",
             "debt_to_equity", "revenue_growth", "gross_margin"}

profile(v_roic, v_ey, v_pio, v_fcf, v_de, v_rg, v_gm) ==
    [roic |-> v_roic, earnings_yield |-> v_ey, piotroski_score |-> v_pio,
     fcf_yield |-> v_fcf, debt_to_equity |-> v_de, revenue_growth |-> v_rg,
     gross_margin |-> v_gm]

\* The metric profiles a cohort is drawn from (NULL where the provider had
\* no value).
RankProfiles ==
    <<profile(Num(5), Num(5), Num(5), Num(5), Num(2), Num(2), Num(5)),
      profile(Num(3), Num(1), Num(3), Num(3), None, Num(1), Num(3)),
      profile(Num(2), Num(3), Num(2), Num(2), Num(3), Num(1), Num(2)),
      profile(Num(1), Num(2), Num(1), None, Num(1), Num(3), Num(1)),
      profile(Num(6), Num(6), Num(1), Num(1), Num(1), Num(1), Num(1))>>

\* The metrics dict of a ticker with this profile.
profile_metrics(p) == [c \in MetricCols |-> IF c \in DOMAIN p THEN p[c] ELSE None]

\* A cohort: the profile of each ticker (the row order of equal cohorts is
\* fixed: profiles in non-decreasing order).
Cohorts ==
    {q \in UNION {[1..n -> 1..Len(RankProfiles)] : n \in 1..MaxCohort} :
        \A a \in 1..(Len(q) - 1) : q[a] <= q[a + 1]}

\* stock_metrics after the per-ticker phase persisted the first k tickers.
RECURSIVE cohort_table(_, _)
cohort_table(q, k) ==
    IF k = 0 THEN <<>>
    ELSE upsert_metrics(cohort_table(q, k - 1), RankTickers[k],
                        profile_metrics(RankProfiles[q[k]]), 1)

\* The values a later upsert may write.
RankValues == {None, Zero, Num(4)}

RankInit ==
    /\ prog = "analyzer"
    /\ tickers = <<>>
    /\ DELAY = 1
    /\ today = 1
    /\ run = 1
    /\ pc = "final"
    /\ i = 1
    /\ metrics = NoneR
    /\ success = 0
    /\ errors = 0
    /\ stocks = <<>>
    /\ \E q \in Cohorts : stock_metrics = cohort_table(q, Len(q))
    /\ rule1_annual = <<>>
    /\ rule1_summary = <<>>
    /\ df = <<>>
    /\ rank_today = 0
    /\ env = <<>>
    /\ first_env = <<>>
    /\ hist = HistInit
    /\ snap = <<>>
    /\ PioIdle
    /\ CalcIdle

\* A later upsert_metrics of one ticker of the ranked cohort with one metric
\* changed; the ranking then runs again.
RankEdit ==
    /\ pc = "done"
    /\ edit = NoEdit
    /\ df /= <<>>
    /\ \E k \in DOMAIN df, c \in RankCols, v \in RankValues :
          LET old == df[k].m[c]
          IN  /\ v /= old
              /\ stock_metrics' = upsert_metrics(stock_metrics, df[k].ticker,
                                                 [df[k].m EXCEPT ![c] = v],
                                                 rank_today)
              /\ edit' = [row |-> k, col |-> c, old |-> old, new |-> v,
                          score |-> composite_score(df, k)]
    /\ pc' = "final"
    /\ UNCHANGED <<prog, tickers, DELAY, today, run, i, metrics, success, errors,
                   stocks, rule1_annual, rule1_summary, ranker, env, first_env,
                   hist, snap, pio, call>>

RankNext == RankRead \/ RankWrite \/ RankEdit

RankSpec == RankInit /\ [][RankNext]_vars

(***************************************************************************)
(* Properties of calculate_rankings (under RankSpec).                      *)
(***************************************************************************)
\* The write-back of the cohort in df has happened.
Ranked == pc = "done" /\ df /= <<>>

\* The persisted record of the cohort row j.
Stored(j) ==
    CHOOSE r \in {stock_metrics[k] : k \in DOMAIN stock_metrics} :
        r.ticker = df[j].ticker /\ r.calc_date = rank_today

\* The ticker's value in a dimension is missing / present (for the Magic
\* Formula standing: both of ROIC and earnings yield).
DimMissing(dim, j) ==
    IF dim = "mf" THEN IsNA(df[j].m.roic) /\ IsNA(df[j].m.earnings_yield)
    ELSE IsNA(dim_series(df, dim)[j])

DimPresent(dim, j) ==
    IF dim = "mf" THEN ~IsNA(df[j].m.roic) /\ ~IsNA(df[j].m.earnings_yield)
    ELSE ~IsNA(dim_series(df, dim)[j])

\* Ticker j has a strictly better value than ticker k in the dimension:
\* lower debt/equity, lower combined rank sum (the series is its negation),
\* higher anything else.
Better(dim, j, k) ==
    /\ DimPresent(dim, j)
    /\ DimPresent(dim, k)
    /\ IF dim = "de" THEN Gt(dim_series(df, dim)[k], dim_series(df, dim)[j])
       ELSE Gt(dim_series(df, dim)[j], dim_series(df, dim)[k])

\* C12: in every dimension every percentile lies in [0, 100], and a ticker
\* whose value is missing never has a percentile above that of a ticker
\* whose value is present (it never contributes more to the composite).
C12_MissingGetsWorstPercentile ==
    \A dim \in Dims : \A j \in DOMAIN df :
        /\ Ge(pct(df, dim, j), Zero)
        /\ Le(pct(df, dim, j), Num(100))
        /\ \A k \in DOMAIN df :
              (DimMissing(dim, j) /\ DimPresent(dim, k))
                  => Le(pct(df, dim, j), pct(df, dim, k))

\* The value written between the two passes is strictly better than the
\* one it replaced.
EditImproves ==
    /\ edit.row /= 0
    /\ ~IsNA(edit.old)
    /\ ~IsNA(edit.new)
    /\ IF edit.col = "debt_to_equity" THEN Gt(edit.old, edit.new)
       ELSE Gt(edit.new, edit.old)

\* C13: percentiles are oriented so that higher is better: a strictly
\* better value never has a lower percentile, and improving one value of a
\* ticker, the rest of the cohort unchanged, never lowers its composite
\* score.
C13_HigherIsBetter ==
    /\ \A dim \in Dims : \A j, k \in DOMAIN df :
          Better(dim, j, k) => Ge(pct(df, dim, j), pct(df, dim, k))
    /\ (Ranked /\ EditImproves)
          => Ge(composite_score(df, edit.row), edit.score)

\* The combined sum (doubled) and the stored Magic Formula rank of row j.
RankSum(j) == combined2(df)[j]
StoredRank(j) == Stored(j).magic_formula_rank

C15_SignalThresholds ==
    Ranked =>
        \A j \in DOMAIN df :
            LET x == composite_score(df, j)
                sig == Stored(j).signal
            IN  /\ sig \in {<<"BUY">>, <<"SELL">>, <<"HOLD">>}
                /\ (sig = <<"BUY">>) <=> Ge(x, Num(70))
                /\ (sig = <<"SELL">>) <=> Le(x, Num(30))

\* A record whose composite score is exactly 70 carries BUY.
C15_Witness ==
    /\ Ranked
    /\ \E j \in DOMAIN df :
          /\ composite_score(df, j) = Num(70)
          /\ Stored(j).signal = <<"BUY">>

(***************************************************************************)
(* The metric calculators of rule1_analyzer.py and of fetch_ticker_data as *)
(* functions of their inputs: each action is one call, recorded in call.   *)
(* The operands are what the statements, the price history and the         *)
(* snapshot can hold: None, finite floats, and the non-finite floats that  *)
(* get_stmt_value passes through.                                          *)
(***************************************************************************)
CalcValues ==
    {None, NaN, PosInf, NegInf, Num(-8), Zero, Rat(1, 2), Num(2), Num(8)}

CalcYears == {None, Num(-1), Zero, Num(1), Num(3)}

CalcInit == PipelineIdle /\ PioIdle

\* Everything but call: a calculator call touches no other state.
calc_frame == <<prog, tickers, DELAY, today, run, pc, i, metrics, success,
                errors, tables, ranker, env, first_env, hist, snap, pio, edit>>

CallCagr ==
    /\ call = NoCall
    /\ \E s \in CalcValues, e \in CalcValues, y \in CalcYears :
          call' = [fn |-> "calculate_cagr", args |-> <<s, e, y>>,
                   result |-> calculate_cagr(s, e, y)]
    /\ UNCHANGED calc_frame

CallYoy ==
    /\ call = NoCall
    /\ \E c \in CalcValues, p \in CalcValues :
          call' = [fn |-> "yoy_growth", args |-> <<c, p>>,
                   result |-> yoy_growth(c, p)]
    /\ UNCHANGED calc_frame

\* Inputs of process_ticker: the fiscal years of the statements (with a gap),
\* the values of a series, and the by-year series themselves.
ProcYears == {2020, 2022, 2023}

ProcValues == {Num(-4), Zero, Num(8)}

ProcDicts == UNION {[Y -> ProcValues] : Y \in SUBSET ProcYears}

ProcPrices ==
    {NoYears,
     [yr \in ProcYears |-> IF yr = 2020 THEN Num(80)
                           ELSE IF yr = 2022 THEN Num(100) ELSE Num(120)]}

\* The income statements: up to two period columns, each labelled with a
\* year of ProcYears (two columns may fall in the same year) or with a label
\* that is no date, and the Total Revenue cell of each column.
ProcStatements ==
    UNION {{[present |-> TRUE, ncols |-> n, years |-> ys,
             rows |-> [r \in {"Total Revenue"} |-> cells]] :
               ys \in [1..n -> ProcYears \cup {0}],
               cells \in [1..n -> {NaN, Num(-4000000), Num(8000000)}]} :
           n \in 0..2}

\* The two reads of date.today().year made for years_recent.
ProcClock == {<<2020, 2020>>, <<2023, 2024>>, <<2024, 2024>>}

CallProcess ==
    /\ call = NoCall
    /\ \E eps \in ProcDicts, fin \in ProcStatements, prices \in ProcPrices,
          eps_ttm \in {None, Num(12)}, clock \in ProcClock :
          LET ans == [info |-> ProviderInfo("AAA"),
                      fin |-> fin,
                      src |-> [roic_by_year |-> NoYears,
                               bvps_by_year |-> NoYears,
                               eps_by_year |-> eps,
                               rev_by_year |-> extract_revenue(fin),
                               fcf_by_year |-> NoYears,
                               hist_by_year |-> prices],
                      ttm |-> [ProviderTtm("AAA") EXCEPT
                                  !.eps_ttm = eps_ttm,
                                  !.revenue_ttm_mil = Num(9)],
                      year_a |-> clock[1],
                      year_b |-> clock[2]]
          IN  call' = [fn |-> "process_ticker", args |-> ans,
                       result |-> process_ticker(ans)]
    /\ UNCHANGED calc_frame

\* Inputs of fetch_ticker_data: what the snapshot holds for 'ebitda' and
\* 'enterpriseValue'.
FetchValues ==
    {None, NaN, PosInf, Bad, Num(-500), Zero, Num(500), Num(5000)}

CallFetch ==
    /\ call = NoCall
    /\ \E eb \in FetchValues, val \in FetchValues :
          LET ans == [info |-> [ProviderInfo("AAA") EXCEPT
                                   !.ebitda = eb, !.enterpriseValue = val],
                      t |-> ProviderTables("AAA")]
          IN  call' = [fn |-> "fetch_ticker_data", args |-> ans,
                       result |-> fetch_ticker_data(ans)]
    /\ UNCHANGED calc_frame

\* Inputs of get_stmt_value: a statement of one or two period columns in
\* which each of the two candidate rows is missing or holds any cells, next
\* to a row that is no candidate.
GsvValues == {None, NaN, PosInf, NegInf, Bad, Num(7), Num(9)}

GsvCells == UNION {[1..n -> GsvValues] : n \in 1..2}

GsvTables ==
    {NoTable, Table(0, <<>>)} \cup
    {Table(Len(other),
           [r \in {"Net Income"} \cup {K_LTD[k] : k \in S} |->
               IF r = "Net Income" THEN other
               ELSE IF r = K_LTD[1] THEN c1 ELSE c2]) :
        S \in SUBSET {1, 2},
        other \in {<<Num(1)>>, <<Num(1), Num(2)>>},
        c1 \in GsvCells, c2 \in GsvCells}

CallGsv ==
    /\ call = NoCall
    /\ \E stmt \in GsvTables, col \in 0..1, script \in {"analyzer", "rule1"} :
          /\ stmt.present =>
                \A r \in DOMAIN stmt.rows : Len(stmt.rows[r]) = stmt.ncols
          /\ call' = [fn |-> "get_stmt_value",
                      args |-> [script |-> script, df |-> stmt, col |-> col],
                      result |-> IF script = "analyzer"
                                 THEN get_stmt_value(stmt, K_LTD, col)
                                 ELSE get_stmt_value_rule1(stmt, K_LTD, col)]
    /\ UNCHANGED calc_frame

\* Composite scores of a frame row, for the write-back.  With the default
\* weights the composite of a cohort of n tickers is a multiple of
\* 5 / (2 n): these are the scores of a cohort of 1000 tickers (multiples of
\* 1/400) next to the two thresholds, and three scores of small cohorts.
ScoreValues ==
    {Rat(k, 400) : k \in (11996..12004) \cup (27996..28004)}
        \cup {Num(50), Rat(145, 2), Num(100)}

\* The signal and the write-back UPDATE of calculate_rankings for one frame
\* row with the composite score x, on the day's record of the ticker.
CallWriteBack ==
    /\ call = NoCall
    /\ \E x \in ScoreValues, rank \in 1..2 :
          LET row == [ticker |-> RankTickers[1], magic_formula_rank |-> rank,
                      composite_score |-> x, signal |-> signal_of(x)]
              table == upsert_metrics(<<>>, RankTickers[1],
                                      profile_metrics(RankProfiles[1]), 1)
          IN  call' = [fn |-> "write_back", args |-> row,
                       result |-> write_back(table, <<row>>, 1, 1)]
    /\ UNCHANGED calc_frame

CalcNext ==
    CallCagr \/ CallYoy \/ CallProcess \/ CallFetch \/ CallGsv \/ CallWriteBack

CalcSpec == CalcInit /\ [][CalcNext]_vars

\* C16: calculate_cagr returns a value exactly when start, end and years are
\* all present and strictly positive; for every other combination it returns
\* None, and it never raises.
C16_CagrDefinedIffPositive ==
    call.fn = "calculate_cagr" =>
        LET s == call.args[1]
            e == call.args[2]
            y == call.args[3]
        IN  /\ call.result /= Raise
            /\ (call.result /= None) <=>
                   (/\ s /= None /\ e /= None /\ y /= None
                    /\ Gt(s, Zero) /\ Gt(e, Zero) /\ Gt(y, Zero))

\* The part of C16 that the code keeps: on operands that are absent or
\* finite, a value is returned exactly when all three are strictly positive.
C16_FiniteOperands ==
    (/\ call.fn = "calculate_cagr"
     /\ \A k \in 1..2 : call.args[k] = None \/ IsNum(call.args[k])) =>
        LET s == call.args[1]
            e == call.args[2]
            y == call.args[3]
        IN  /\ call.result /= Raise
            /\ (call.result /= None) <=>
                   (/\ s /= None /\ e /= None /\ y /= None
                    /\ Gt(s, Zero) /\ Gt(e, Zero) /\ Gt(y, Zero))

\* C17: yoy_growth returns None exactly when the prior value is None or
\* exactly 0, and otherwise the finite value (current - prior) / |prior|.
C17_YoyDefinedIffPrior ==
    call.fn = "yoy_growth" =>
        LET c == call.args[1]
            p == call.args[2]
        IN  /\ (call.result = None) <=> (p = None \/ p = Zero)
            /\ call.result /= None =>
                   /\ IsNum(call.result)
                   /\ call.result = Quot(Minus(c, p), AbsF(p))

\* What the code does on absent or finite operands: None exactly when the
\* current or the prior value is None or the prior value is 0.
C17_FiniteOperands ==
    (/\ call.fn = "yoy_growth"
     /\ \A k \in 1..2 : call.args[k] = None \/ IsNum(call.args[k])) =>
        LET c == call.args[1]
            p == call.args[2]
        IN  /\ (call.result = None) <=> (c = None \/ p = None \/ p = Zero)
            /\ call.result /= None =>
                   /\ IsNum(call.result)
                   /\ call.result = Quot(Minus(c, p), AbsF(p))

\* The annual rows of a process_ticker call that returned data.
ProcRows ==
    IF call.fn = "process_ticker" /\ call.result /= NoneR
    THEN call.result.annual_rows
    ELSE <<>>

\* C18: in the annual rows of process_ticker (ascending fiscal year, each
\* value taken from its series), every YoY field of the first row is None,
\* and every YoY field of a later row is the growth of the row's value
\* against the same field of the row just before it, whatever the gap in
\* years between them and also when that row's value is None while an older
\* row has one.
C18_YoyAgainstPrecedingRow ==
    \A j \in DOMAIN ProcRows :
        /\ j > 1 => ProcRows[j - 1].fiscal_year < ProcRows[j].fiscal_year
        /\ ProcRows[j].cols.earnings_per_share
               = get(call.args.src.eps_by_year, ProcRows[j].fiscal_year)
        /\ ProcRows[j].cols.revenue_mil
               = get(call.args.src.rev_by_year, ProcRows[j].fiscal_year)
        /\ \A k \in DOMAIN yoy_pairs :
              LET cur == ProcRows[j].cols[yoy_pairs[k][1]]
                  yoy == ProcRows[j].cols[yoy_pairs[k][2]]
              IN  IF j = 1 THEN yoy = None
                  ELSE LET prior == ProcRows[j - 1].cols[yoy_pairs[k][1]]
                       IN  yoy = IF cur = None \/ prior = None \/ prior = Zero
                                 THEN None
                                 ELSE Quot(Minus(cur, prior), AbsF(prior))

\* Rows for 2020, 2022 and 2023: EPS is present in 2020 and 2023 but not in
\* 2022, so eps_yoy of 2023 is None; revenue grows from 2020 to 2022.
C18_Witness ==
    /\ Len(ProcRows) = 3
    /\ ProcRows[1].cols.earnings_per_share = Num(8)
    /\ ProcRows[2].cols.earnings_per_share = None
    /\ ProcRows[3].cols.earnings_per_share = Num(8)
    /\ ProcRows[3].cols.eps_yoy = None
    /\ ProcRows[2].fiscal_year = 2022
    /\ ProcRows[1].cols.revenue_mil = Num(-4)
    /\ ProcRows[2].cols.revenue_yoy = Num(3)

\* C19: every recent-window CAGR of the summary is the CAGR from the
\* second-to-last annual row's value to the matching TTM value over
\* (current calendar year - that row's fiscal year) years, also when fiscal
\* years are missing in between; all seven are None when there are fewer
\* than two annual rows or when that number of years is <= 0.
C19_RecentCagrOperands ==
    (call.fn = "process_ticker" /\ call.result /= NoneR) =>
        \A k \in DOMAIN cagr_map :
            LET recent == call.result.summary[cagr_map[k][4]]
                n == Len(ProcRows)
            IN  IF n < 2 THEN recent = None
                ELSE LET elapsed == call.args.year_a - ProcRows[n - 1].fiscal_year
                     IN  IF elapsed <= 0 THEN recent = None
                         ELSE recent =
                                calculate_cagr(ProcRows[n - 1].cols[cagr_map[k][1]],
                                               call.args.ttm[cagr_map[k][2]],
                                               Num(elapsed))

\* Rows for 2020 and 2023 only, read in 2024: the recent EPS CAGR runs from
\* the 2020 value 8 to the TTM value 12 over 4 years.
C19_Witness ==
    /\ Len(ProcRows) = 2
    /\ ProcRows[1].fiscal_year = 2020
    /\ ProcRows[2].fiscal_year = 2023
    /\ call.args.year_a = 2024
    /\ call.result.summary.eps_cagr_recent = <<"root", 3, 2, 4>>
    /\ call.result.summary.revenue_cagr_recent = None

\* C20: earnings_yield is EBITDA / EV exactly when both are present and
\* EV > 0, for any present EBITDA (zero and negative included), and None
\* otherwise: EBITDA 500 with EV 5000 gives 0.10, EV 0 gives None.
C20_EarningsYield ==
    (/\ call.fn = "fetch_ticker_data"
     /\ call.result /= NoneR
     /\ call.result /= RaiseR) =>
        LET ebitda == safe(call.args.info.ebitda)
            ev == safe(call.args.info.enterpriseValue)
            ey == call.result.earnings_yield
        IN  /\ ey = IF ebitda /= None /\ ev /= None /\ Gt(ev, Zero)
                    THEN Quot(ebitda, ev) ELSE None
            /\ (ebitda = Num(500) /\ ev = Num(5000)) => ey = Rat(1, 10)
            /\ ev = Zero => ey = None

\* What the code computes: like C20, but a present EBITDA of exactly 0
\* gives None as well.
C20_NonZeroEbitda ==
    (/\ call.fn = "fetch_ticker_data"
     /\ call.result /= NoneR
     /\ call.result /= RaiseR) =>
        LET ebitda == safe(call.args.info.ebitda)
            ev == safe(call.args.info.enterpriseValue)
            ey == call.result.earnings_yield
        IN  ey = IF ebitda /= None /\ ebitda /= Zero /\ ev /= None /\ Gt(ev, Zero)
                 THEN Quot(ebitda, ev) ELSE None

\* The candidates of a get_stmt_value call that are rows of the table with a
\* value (neither None nor NaN) at the period column, in priority order.
GsvHits ==
    LET stmt == call.args.df
    IN  IF call.fn /= "get_stmt_value" \/ ~stmt.present \/ Empty(stmt) THEN {}
        ELSE {k \in DOMAIN K_LTD :
                 /\ K_LTD[k] \in DOMAIN stmt.rows
                 /\ call.args.col + 1 <= stmt.ncols
                 /\ stmt.rows[K_LTD[k]][call.args.col + 1] \notin {None, NaN}}

\* C21: get_stmt_value returns the value of the first candidate name, in
\* priority order, that is a row of the table with a present value at the
\* period column; it returns None when the table is absent or empty or no
\* candidate matches; and it never returns NaN or +/-Infinity.
C21_LookupNeverNonFinite ==
    (call.fn = "get_stmt_value" /\ call.result /= Raise) =>
        /\ call.result \notin {NaN, PosInf, NegInf}
        /\ GsvHits = {} => call.result = None
        /\ GsvHits /= {} =>
               LET first == CHOOSE k \in GsvHits : \A j \in GsvHits : k <= j
                   val == call.args.df.rows[K_LTD[first]][call.args.col + 1]
               IN  call.result = IF val \in {PosInf, NegInf} THEN None ELSE val

\* What the code does: the first candidate with a value that is neither
\* None nor NaN wins, whatever that value is.
C21_FirstNonNaN ==
    (call.fn = "get_stmt_value" /\ call.result /= Raise) =>
        /\ GsvHits = {} => call.result = None
        /\ GsvHits /= {} =>
               LET first == CHOOSE k \in GsvHits : \A j \in GsvHits : k <= j
               IN  call.result = call.args.df.rows[K_LTD[first]][call.args.col + 1]

\* C22: a ticker whose persistence raised leaves no record of the run in the
\* store: outside the step between a ticker's two upserts, every ticker with
\* a master record has a daily record, and every ticker with annual records
\* has a summary record.
C22_FailedTickerLeavesNothing ==
    pc /= "persist2" =>
        /\ \A k \in DOMAIN stocks :
              \E j \in DOMAIN stock_metrics :
                  stock_metrics[j].ticker = stocks[k].ticker
        /\ \A k \in DOMAIN rule1_annual :
              \E j \in DOMAIN rule1_summary :
                  rule1_summary[j].ticker = rule1_annual[k].ticker

\* What the code keeps: a ticker whose second upsert committed has both of
\* its records, and a ticker whose first upsert raised has none.
C22_PersistedHaveBoth ==
    /\ \A sym \in hist.persisted :
          IF prog = "analyzer"
          THEN /\ \E k \in DOMAIN stocks : stocks[k].ticker = sym
               /\ \E j \in DOMAIN stock_metrics : stock_metrics[j].ticker = sym
          ELSE /\ \E k \in DOMAIN rule1_annual : rule1_annual[k].ticker = sym
               /\ \E j \in DOMAIN rule1_summary : rule1_summary[j].ticker = sym
    /\ \A j \in DOMAIN stock_metrics :
          \E k \in DOMAIN stocks : stocks[k].ticker = stock_metrics[j].ticker
    /\ \A j \in DOMAIN rule1_summary :
          \E k \in DOMAIN rule1_annual :
              rule1_annual[k].ticker = rule1_summary[j].ticker

\* The persisted daily records that a ranking pass has written.
WrittenBack ==
    LET table == IF call.fn = "write_back" THEN call.result ELSE stock_metrics
    IN  {table[k] : k \in {j \in DOMAIN table : table[j].composite_score /= None}}

\* C23: after a ranking pass the stored signal of every record agrees with
\* its stored (rounded) composite score: BUY exactly when the stored score is
\* >= 70, SELL exactly when it is <= 30, HOLD otherwise.
C23_StoredSignalMatchesStoredScore ==
    \A r \in WrittenBack :
        /\ r.signal \in {<<"BUY">>, <<"SELL">>, <<"HOLD">>}
        /\ (r.signal = <<"BUY">>) <=> Ge(r.composite_score, Num(70))
        /\ (r.signal = <<"SELL">>) <=> Le(r.composite_score, Num(30))

\* What the code keeps: the stored signal is that of the unrounded score,
\* and the stored score is the unrounded one rounded to two decimals.
C23_SignalOfUnrounded ==
    call.fn = "write_back" =>
        \A r \in WrittenBack :
            /\ r.signal = <<signal_of(call.args.composite_score)>>
            /\ r.composite_score = round2(call.args.composite_score)

\* The years for which the inputs of a process_ticker call carry a value:
\* the years of the EPS series (and of the ROIC, BVPS and FCF series), and
\* the years of the income statement's date columns with a revenue value.
YearsWithData ==
    LET src == call.args.src
        fin == call.args.fin
    IN  DOMAIN src.roic_by_year \cup DOMAIN src.bvps_by_year
        \cup DOMAIN src.eps_by_year \cup DOMAIN src.fcf_by_year
        \cup {fin.years[k] : k \in {j \in 1..fin.ncols :
                                       /\ fin.years[j] /= 0
                                       /\ fin.rows["Total Revenue"][j] /= NaN}}

\* C24: the annual rows of process_ticker have pairwise distinct fiscal years
\* in strictly ascending order, one row for every year that carries a value
\* in one of the series and no other row (also when two statement columns
\* fall in the same calendar year), and years_of_data is the number of rows;
\* without such a year nothing is returned.
C24_OneRowPerYear ==
    call.fn = "process_ticker" =>
        /\ (call.result = NoneR) <=> (YearsWithData = {})
        /\ \A j \in DOMAIN ProcRows :
              j > 1 => ProcRows[j - 1].fiscal_year < ProcRows[j].fiscal_year
        /\ call.result /= NoneR =>
              /\ {ProcRows[j].fiscal_year : j \in DOMAIN ProcRows} = YearsWithData
              /\ Len(ProcRows) = Cardinality(YearsWithData)
              /\ call.result.summary.years_of_data = Num(Len(ProcRows))

\* An income statement whose two columns both fall in 2023, each with a
\* revenue value, next to an EPS series for 2020: two rows, 2020 and 2023.
C24_Witness ==
    /\ call.fn = "process_ticker"
    /\ call.args.fin.years = <<2023, 2023>>
    /\ call.args.fin.rows["Total Revenue"] = <<Num(8000000), Num(-4000000)>>
    /\ DOMAIN call.args.src.eps_by_year = {2020}
    /\ Len(ProcRows) = 2
    /\ ProcRows[2].fiscal_year = 2023
    /\ ProcRows[2].cols.revenue_mil = Num(-4)
    /\ call.result.summary.years_of_data = Num(2)

====
